---- MODULE Spec2Model ----
(***************************************************************************)
(* Model of downloads/prepare_local.py: the pipeline run() that encodes a  *)
(* source video into several bitrate representations, segments each one,   *)
(* merges the manifest fragments and optionally scores every segment with  *)
(* VMAF.  Three specifications share the module:                           *)
(*   Spec          the pipeline, run after run over one working directory  *)
(*   ExtractSpec   extract_vmaf_score applied to a family of reports       *)
(*   ManifestSpec  build_common_manifest applied to a family of inputs     *)
(***************************************************************************)
EXTENDS Integers, Sequences, FiniteSets, TLC

VARIABLES
    \* ---- the pipeline's control state (run, lines 299-327)
    pc,            \* where the run is
    stage,         \* the pipeline stage of pc (kept when the run aborts)
    args,          \* the Namespace: rates, vmaf
    source,        \* the video at args.input, once ffmpeg has read it
    i,             \* index into args.rates of the loop in progress
    seg,           \* index of the segment in progress
    \* ---- the working directory videos/<name> and the CWD
    repFiles,      \* rate -> the file tmp/rep_<rate>.mp4
    tracks,        \* rate -> the directory tracks/video_<rate>
    scratch,       \* rates r whose tmp/mp4box_<r> exists
    dashOut,       \* what MP4Box left in the scratch directory in use
    manifest,      \* tracks/manifest.mpd
    vmafJson,      \* vmaf.json
    cuts,          \* which of cut1.yuv, cut2.yuv, vmaf_out.json exist
    yuv,           \* the directory yuv/ and the raw buffers in it
    deps,          \* whether compute_vmaf found the vmaf binary and its model
    \* ---- the run's memory
    reps,          \* out_map of transcode_h264_reps
    seg_info_all,  \* rate -> segment -> {start_time, vmaf}
    info,          \* rate -> {width, height}
    window,        \* the (ss, t) of the cut in progress
    \* ---- observation of the run in progress
    calls,         \* external invocations made by this run
    hist,          \* what the run found on disk and what it did
    \* ---- extract_vmaf_score on its own
    ext_v, ext_r,
    \* ---- build_common_manifest on its own
    m_rates, m_frags, m_out

pipeVars == <<pc, stage, args, source, i, seg, repFiles, tracks, scratch, dashOut,
              manifest, vmafJson, cuts, yuv, deps, reps, seg_info_all, info,
              window, calls, hist>>
extVars  == <<ext_v, ext_r>>
manVars  == <<m_rates, m_frags, m_out>>
vars     == <<pipeVars, extVars, manVars>>

(***************************************************************************)
(* Bounds of the model.                                                    *)
(***************************************************************************)
\* the most chunks the segmenter produces for one representation
MaxSeg == 2
\* the most entries of a report's top-level object
MaxEntries == 2
\* how many of the default bitrates build_common_manifest is tried on
MaxRates == 3

(***************************************************************************)
(* JSON values as json.loads returns them.  A dict keeps its insertion     *)
(* order: items is the sequence of its (key, value) entries.               *)
(***************************************************************************)
Num(n)      == [t |-> "num",  n |-> n, items |-> <<>>]
Null        == [t |-> "null", n |-> 0, items |-> <<>>]
Dict(items) == [t |-> "dict", n |-> 0, items |-> items]
List(items) == [t |-> "list", n |-> 0, items |-> items]
Entry(k, v) == [k |-> k, v |-> v]
\* Python's None, as walk returns it
None        == [t |-> "none", n |-> 0, items |-> <<>>]

isdict(x) == x.t = "dict"
islist(x) == x.t = "list"
isnum(x)  == x.t = "num"
\* key in d
Has(d, key) == \E j \in 1..Len(d.items) : d.items[j].k = key
\* d[key]
Get(d, key) == d.items[CHOOSE j \in 1..Len(d.items) : d.items[j].k = key].v
\* list(d.keys())
Keys(d) == [j \in 1..Len(d.items) |-> d.items[j].k]

\* str(k).lower() on the keys the reports use
lower(k) ==
    CASE k = "VMAF_score" -> "vmaf_score"
      [] k = "Vmaf_Score" -> "vmaf_score"
      [] k = "VMAF"       -> "vmaf"
      [] k = "Vmaf"       -> "vmaf"
      [] OTHER            -> k

(***************************************************************************)
(* extract_vmaf_score (lines 174-223).  The outcome is a returned float or *)
(* the exception raised.                                                   *)
(***************************************************************************)
Returned(n)   == [kind |-> "value", val |-> n, keys |-> <<>>, type |-> ""]
TypeError     == [kind |-> "TypeError", val |-> 0, keys |-> <<>>, type |-> ""]
\* KeyError(f"... Top-level keys: {list(v.keys()) if isinstance(v, dict) else type(v)}")
KeyError(v)   == [kind |-> "KeyError", val |-> 0,
                  keys |-> IF isdict(v) THEN Keys(v) ELSE <<>>,
                  type |-> IF isdict(v) THEN "" ELSE v.t]

\* float(x): a number converts, None, a dict or a list raises TypeError
float(x) == IF isnum(x) THEN Returned(x.n) ELSE TypeError

\* the spellings walk accepts (line 207)
WalkKeys == {"vmaf_score", "vmaf"}

RECURSIVE walk(_), walkDict(_, _), walkList(_, _)
\* for k, val in x.items(): ...
walkDict(items, j) ==
    IF j > Len(items) THEN None
    ELSE LET val == items[j].v
             lk  == lower(items[j].k)
         IN  IF lk \in WalkKeys /\ isnum(val) THEN val
             ELSE LET r == walk(val)
                  IN  IF r # None THEN r ELSE walkDict(items, j + 1)
\* for it in x: ...
walkList(items, j) ==
    IF j > Len(items) THEN None
    ELSE LET r == walk(items[j])
         IN  IF r # None THEN r ELSE walkList(items, j + 1)
walk(x) ==
    IF isdict(x) THEN walkDict(x.items, 1)
    ELSE IF islist(x) THEN walkList(x.items, 1)
    ELSE None

\* the statistics tried in pooled_metrics.vmaf, in order (line 192)
PooledOrder_swapped == <<"harmonic_mean", "mean", "min", "max">>
PooledOrder == <<"mean", "harmonic_mean", "min", "max">>

\* for k in (...): if k in vv: return float(vv[k])
RECURSIVE firstStat(_, _)
firstStat(vv, j) ==
    IF j > Len(PooledOrder) THEN None
    ELSE IF Has(vv, PooledOrder[j]) THEN Get(vv, PooledOrder[j])
    ELSE firstStat(vv, j + 1)
hasStat(vv) == \E j \in 1..Len(PooledOrder) : Has(vv, PooledOrder[j])

\* 4) the fallback and the final raise (lines 219-223)
extract_fallback(v) ==
    LET r == walk(v) IN IF r # None THEN float(r) ELSE KeyError(v)
\* 3) metrics.vmaf.mean (lines 197-200)
extract_metrics(v) ==
    IF isdict(v) /\ Has(v, "metrics") /\ isdict(Get(v, "metrics"))
       /\ Has(Get(v, "metrics"), "vmaf")
       /\ isdict(Get(Get(v, "metrics"), "vmaf"))
       /\ Has(Get(Get(v, "metrics"), "vmaf"), "mean")
    THEN float(Get(Get(Get(v, "metrics"), "vmaf"), "mean"))
    ELSE extract_fallback(v)
\* 2) pooled_metrics.vmaf (lines 188-194)
extract_pooled(v) ==
    IF isdict(v) /\ Has(v, "pooled_metrics") /\ isdict(Get(v, "pooled_metrics"))
       /\ Has(Get(v, "pooled_metrics"), "vmaf")
       /\ isdict(Get(Get(v, "pooled_metrics"), "vmaf"))
       /\ hasStat(Get(Get(v, "pooled_metrics"), "vmaf"))
    THEN float(firstStat(Get(Get(v, "pooled_metrics"), "vmaf"), 1))
    ELSE extract_metrics(v)
\* 1) aggregate.VMAF_score, aggregate.VMAF (lines 180-185)
extract_vmaf_score(v) ==
    IF isdict(v) /\ Has(v, "aggregate") /\ isdict(Get(v, "aggregate"))
       /\ Has(Get(v, "aggregate"), "VMAF_score")
    THEN float(Get(Get(v, "aggregate"), "VMAF_score"))
    ELSE IF isdict(v) /\ Has(v, "aggregate") /\ isdict(Get(v, "aggregate"))
            /\ Has(Get(v, "aggregate"), "VMAF")
    THEN float(Get(Get(v, "aggregate"), "VMAF"))
    ELSE extract_pooled(v)

(***************************************************************************)
(* The reports extract_vmaf_score is tried on: every top-level object of   *)
(* at most MaxEntries of the entries below (distinct keys, in any order),  *)
(* and some reports that are no object.                                    *)
(***************************************************************************)
D1(k, v)          == Dict(<<Entry(k, v)>>)
D2(k1, v1, k2, v2) == Dict(<<Entry(k1, v1), Entry(k2, v2)>>)

Sections ==
    { Entry("aggregate", D1("VMAF_score", Num(87))),
      Entry("aggregate", D1("VMAF", Num(88))),
      Entry("aggregate", D2("VMAF", Num(88), "VMAF_score", Num(87))),
      Entry("aggregate", D1("VMAF_score", Null)),
      Entry("aggregate", D1("foo", Num(1))),
      Entry("aggregate", Num(86)),
      Entry("pooled_metrics", D1("vmaf", D2("mean", Num(90), "harmonic_mean", Num(89)))),
      Entry("pooled_metrics", D1("vmaf", D2("harmonic_mean", Num(89), "mean", Num(90)))),
      Entry("pooled_metrics", D1("vmaf", D2("max", Num(95), "min", Num(70)))),
      Entry("pooled_metrics", D1("vmaf", D2("mean", Null, "min", Num(70)))),
      Entry("pooled_metrics", D1("vmaf", D1("foo", Num(2)))),
      Entry("pooled_metrics", D1("vmaf", Num(91))),
      Entry("metrics", D1("vmaf", D1("mean", Num(92)))),
      Entry("metrics", D1("vmaf", D1("min", Num(3)))),
      Entry("metrics", D1("Vmaf", Num(93))),
      Entry("foo", D1("bar", List(<<D1("VMAF", Num(77))>>))),
      Entry("foo", List(<<D1("x", Null), D1("Vmaf_Score", Num(76))>>)),
      Entry("foo", Null),
      Entry("VMAF", Num(75)),
      Entry("vmaf_score", Null),
      Entry("vmaf", D1("vmaf", Num(74))) }

NonObjects ==
    { Null, Num(5), List(<<>>), List(<<D1("vmaf", Num(73))>>),
      List(<<Num(4), D1("aggregate", D1("VMAF_score", Num(72)))>>) }

\* the sequences of 1..n entries with distinct keys
EntrySeqs(n) ==
    UNION { { s \in [1..k -> Sections] :
                \A a, b \in 1..k : a # b => s[a].k # s[b].k } : k \in 0..n }

Reports == { Dict(s) : s \in EntrySeqs(MaxEntries) } \cup NonObjects

(***************************************************************************)
(* build_common_manifest (lines 107-158).  A fragment intermediate_dash.mpd *)
(* is the list of the children of its tree[1][0] and whether the file      *)
(* still holds "Initialization" lines.  A node's src is the rate of the     *)
(* fragment the element object was parsed from.                            *)
(***************************************************************************)
Range(s) == { s[j] : j \in 1..Len(s) }

\* the sequences of 1..n distinct elements of S
DistinctSeqs(S, n) ==
    UNION { { s \in [1..k -> S] : \A a, b \in 1..k : a # b => s[a] # s[b] }
            : k \in 1..n }

\* --rates default (line 340)
DefaultRates == <<300, 600, 1200, 2500>>
RateUniverse(n) ==
    { DefaultRates[k] : k \in 1..(IF n < Len(DefaultRates) THEN n ELSE Len(DefaultRates)) }

SegmentTemplate(init, media) ==
    [tag |-> "SegmentTemplate", id |-> <<"", 0>>, src |-> 0, width |-> 0,
     height |-> 0, initialization |-> init, media |-> media]
Representation(rate, w, h) ==
    [tag |-> "Representation", id |-> <<"", 1>>, src |-> rate, width |-> w,
     height |-> h, initialization |-> "", media |-> ""]
\* the fragment MP4Box writes for one representation
Fragment(rate, w, h) ==
    [initLines |-> TRUE,
     children  |-> <<SegmentTemplate("init.mp4", "$Number$.m4s"), Representation(rate, w, h)>>]
\* a fragment that holds no Representation
FragmentNoRep == [initLines |-> TRUE,
                  children  |-> <<SegmentTemplate("init.mp4", "$Number$.m4s")>>]

\* sorted(rates): insertion of each element into the sorted prefix
RECURSIVE insert(_, _)
insert(x, s) ==
    IF s = <<>> THEN <<x>>
    ELSE IF x < Head(s) THEN <<x>> \o s
    ELSE <<Head(s)>> \o insert(x, Tail(s))
RECURSIVE sorted(_)
sorted(s) == IF s = <<>> THEN <<>> ELSE insert(s[Len(s)], sorted(SubSeq(s, 1, Len(s) - 1)))
\* s.index(x), 0-based; x is in s
index(s, x) == (CHOOSE j \in 1..Len(s) : s[j] = x /\ \A k \in 1..(j - 1) : s[k] # x) - 1

\* pl = sorted(rates).index(rate) (line 137)
rank_unsorted(rates, rate) == index(rates, rate)
rank(rates, rate) == index(sorted(rates), rate)

\* the last child whose tag holds "Representation", 0 for None (lines 130-133)
lastRepresentation(children) ==
    LET hits == { j \in 1..Len(children) : children[j].tag = "Representation" }
    IN  IF hits = {} THEN 0 ELSE CHOOSE j \in hits : \A k \in hits : k <= j

\* base[1][0].append(representation) (line 151)
append(base, node) == Append(base, node)

NoTree == <<>>
\* one pass of the loop over rates from position j on (lines 116-151)
RECURSIVE merge(_, _, _, _, _)
merge(rates, frags, j, base, inf) ==
    IF j > Len(rates)
    THEN [err |-> "", base |-> base, info |-> inf, read |-> Len(rates)]
    ELSE LET rate     == rates[j]
             children == frags[rate].children
             r        == lastRepresentation(children)
         IN  IF r = 0
             THEN [err |-> "RuntimeError", base |-> base, info |-> inf, read |-> j]
             ELSE LET node  == [children[r] EXCEPT !.id = <<"video", rank(rates, rate)>>]
                      tree  == [children EXCEPT ![r] = node]
                      inf2  == [x \in (DOMAIN inf) \cup {rate} |->
                                  IF x = rate
                                  THEN [width |-> node.width, height |-> node.height]
                                  ELSE inf[x]]
                  IN  IF base = NoTree
                      THEN merge(rates, frags, j + 1,
                                 [tree EXCEPT ![1].initialization = "$RepresentationID$/init.mp4",
                                              ![1].media = "$RepresentationID$/$Number$.m4s"],
                                 inf2)
                      ELSE merge(rates, frags, j + 1, append(base, node), inf2)

\* the whole function: what it returns or raises, the manifest it writes and
\* the fragments it rewrote without their "Initialization" lines
build_common_manifest(rates, frags) == merge(rates, frags, 1, NoTree, <<>>)

\* the fragments after the call: the first `read` are rewritten (lines 121-125)
stripFragments(rates, frags, read) ==
    [x \in DOMAIN frags |->
        IF \E j \in 1..read : rates[j] = x
        THEN [frags[x] EXCEPT !.initLines = FALSE] ELSE frags[x]]

(***************************************************************************)
(* The pipeline.  The working directory outlives a run: a run starts on    *)
(* whatever the earlier runs, finished or aborted, left behind.            *)
(***************************************************************************)
\* the bitrates and the arguments the pipeline is run with; a source video
\* is its length in segments of --segment seconds
PipeRates == {300, 600}
Inputs    == 0..MaxSeg
Unread    == [read |-> FALSE, len |-> 0]
ArgSet    == [rates : DistinctSeqs(PipeRates, Cardinality(PipeRates)), vmaf : BOOLEAN]
ExitCodes == {0, 1}

\* check_output raises CalledProcessError on a non-zero exit (lines 11-14);
\* TRUE when run_cmd raises
run_cmd_unchecked(exit) == FALSE
run_cmd(exit) == exit # 0

\* --segment default (line 334)
DefaultSegment == 5
\* seg_ms = seg_s * 1000 (line 82)
seg_ms == DefaultSegment * 1000
\* a chunk's SegmentIndexBox, as MP4Box -diso prints it
Sidx(e) == [timescale |-> 1000, earliest_presentation_time |-> e]
\* the chunks MP4Box -dash seg_ms cuts a file of n segments into: keyframes
\* are forced every fps * seg_s frames (lines 45, 57), chunk k starts at
\* (k - 1) * seg_ms
Chunks(n) == [k \in 1..n |-> Sidx((k - 1) * seg_ms)]

\* the file tmp/rep_<rate>.mp4: its length in segments
NoFile == [exists |-> FALSE, len |-> 0]

\* the directory tracks/video_<rate>
NoFragment == [initLines |-> FALSE, children |-> <<>>]
AbsentDir  == [exists |-> FALSE, mpd |-> FALSE, frag |-> NoFragment,
               init |-> FALSE, chunks |-> <<>>]
EmptyDir   == [AbsentDir EXCEPT !.exists = TRUE]
\* a directory holding a complete segmentation
Segmented(d) == d.exists /\ d.mpd /\ d.init /\ d.chunks # <<>>

NoManifest == [exists |-> FALSE, children |-> <<>>]
NoSegInfo  == [r \in PipeRates |-> [present |-> FALSE, segs |-> <<>>]]
NoJson     == [exists |-> FALSE, doc |-> NoSegInfo]
NoYuv      == [exists |-> FALSE, files |-> {}]
NoDashOut  == [mpd |-> FALSE, init |-> FALSE, chunks |-> <<>>]
NoWindow   == [rate |-> 0, seg |-> 0, ss |-> 0, t |-> 0]
NoCalls    == [enc |-> 0, dash |-> 0, inspect |-> 0, conv |-> 0, cut |-> 0, vmaf |-> 0]

\* the reports the quality tool leaves in vmaf_out.json during a run
PipeReports == { Dict(<<Entry("aggregate", D1("VMAF_score", Num(87)))>>),
                 Dict(<<Entry("frames", List(<<>>))>>) }

\* max(rates) (line 256)
max(S) == CHOOSE x \in S : \A y \in S : y <= x

\* the head of compute_vmaf (lines 241-254): what it does before any work
compute_vmaf_entry_depsfirst(jsonExists, bin, model) ==
    IF ~bin THEN "raise_bin"
    ELSE IF ~model THEN "raise_model"
    ELSE IF jsonExists THEN "return"
    ELSE "go"
compute_vmaf_entry(jsonExists, bin, model) ==
    IF jsonExists THEN "return"
    ELSE IF ~bin THEN "raise_bin"
    ELSE IF ~model THEN "raise_model"
    ELSE "go"

\* seg_info[rate][seg]["vmaf"] = ... (line 290)
set_vmaf_dropped(segrec, val) == segrec
set_vmaf(segrec, val) == [segrec EXCEPT !.scored = TRUE, !.vmaf = val]

\* ss and t of segment s of segs (lines 265-271); seg_info[rate][0] is a KeyError
cut_window(segs, s) ==
    LET segments == Len(segs)
        ss       == segs[s].start_time
    IN  IF s < segments
        THEN [err |-> "", ss |-> ss, t |-> segs[s + 1].start_time - ss]
        ELSE IF s - 1 \in DOMAIN segs
        THEN [err |-> "", ss |-> ss, t |-> segs[s].start_time - segs[s - 1].start_time]
        ELSE [err |-> "KeyError: 0", ss |-> ss, t |-> 0]

\* os.path.isfile(out_mp4) (line 49)
rep_isfile_never(r, files) == FALSE
rep_isfile(r, files) == files[r].exists

\* what a run that found every output in place found
NoSnap == [repFiles |-> [r \in PipeRates |-> NoFile],
           tracks |-> [r \in PipeRates |-> AbsentDir],
           manifest |-> NoManifest, vmafJson |-> NoJson]
\* the encoded files, the segment directories of the rates rs and vmaf.json exist
AllExist(rs) ==
    /\ \A r \in rs : repFiles[r].exists /\ Segmented(tracks[r])
    /\ vmafJson.exists

PipeInit ==
    /\ pc = "idle" /\ stage = "idle"
    /\ args = [rates |-> <<>>, vmaf |-> FALSE] /\ source = Unread
    /\ i = 0 /\ seg = 0
    /\ repFiles = [r \in PipeRates |-> NoFile] /\ tracks = [r \in PipeRates |-> AbsentDir]
    /\ scratch = {} /\ dashOut = NoDashOut
    /\ manifest = NoManifest /\ vmafJson = NoJson /\ cuts = {} /\ yuv = NoYuv
    /\ reps = {} /\ seg_info_all = NoSegInfo /\ info = <<>> /\ window = NoWindow
    /\ calls = NoCalls
    /\ hist = [allExist |-> FALSE, clean |-> TRUE, jsonAtStart |-> FALSE,
               snap |-> NoSnap,
               failed |-> FALSE, wroteManifest |-> FALSE, wroteJson |-> FALSE,
               skipped |-> FALSE, error |-> ""]

\* no result yet
Pending    == [kind |-> "pending", val |-> 0, keys |-> <<>>, type |-> ""]
PendingOut == [err |-> "pending", base |-> <<>>, info |-> <<>>, read |-> 0]
ExtIdle == ext_v = Null /\ ext_r = Pending
ManIdle == m_rates = <<>> /\ m_frags = <<>> /\ m_out = PendingOut
Idle    == ExtIdle /\ ManIdle

\* ./deps/vmaf: the binary and the model file, present or not
DepStates == [bin : BOOLEAN, model : BOOLEAN]
NoDeps    == [bin |-> FALSE, model |-> FALSE]

Init == PipeInit /\ deps = NoDeps /\ Idle

rates == args.rates
rate  == rates[i]
last  == i = Len(rates)

\* python3 prepare_local.py ... : a new process on the directory as it is
StartRun ==
    /\ pc \in {"idle", "done", "aborted"}
    /\ \E a \in ArgSet :
         /\ args' = a
         /\ hist' = [allExist |-> AllExist(Range(a.rates)),
                     clean |-> scratch = {} /\ cuts = {} /\ ~yuv.exists,
                     jsonAtStart |-> vmafJson.exists,
                     snap |-> IF AllExist(Range(a.rates))
                              THEN [repFiles |-> repFiles, tracks |-> tracks,
                                    manifest |-> manifest, vmafJson |-> vmafJson]
                              ELSE NoSnap,
                     failed |-> FALSE, wroteManifest |-> FALSE, wroteJson |-> FALSE,
                     skipped |-> FALSE, error |-> ""]
    /\ pc' = "transcode" /\ stage' = "transcode" /\ i' = 1 /\ seg' = 0
    /\ source' = Unread
    /\ reps' = {} /\ seg_info_all' = NoSegInfo /\ info' = <<>>
    /\ window' = NoWindow /\ dashOut' = NoDashOut /\ calls' = NoCalls
    /\ deps' = NoDeps
    /\ UNCHANGED <<repFiles, tracks, scratch, manifest, vmafJson, cuts, yuv>>

\* an exception leaves run(): the process ends where it is
Raise(exit, error) ==
    /\ pc' = "aborted"
    /\ hist' = [hist EXCEPT !.failed = @ \/ exit # 0, !.error = error]

\* transcode_h264_reps, one rate whose file exists (lines 47-51)
TranscodeSkip ==
    /\ pc = "transcode" /\ rep_isfile(rate, repFiles)
    /\ reps' = reps \cup {rate}
    /\ IF last THEN pc' = "seg_prepare" /\ stage' = "segment" /\ i' = 1
               ELSE i' = i + 1 /\ UNCHANGED <<pc, stage>>
    /\ UNCHANGED <<args, source, seg, repFiles, tracks, scratch, dashOut, manifest,
                   vmafJson, cuts, yuv, deps, seg_info_all, info, window, calls, hist>>

\* transcode_h264_reps, one rate to encode (lines 53-62)
TranscodeEncode ==
    /\ pc = "transcode" /\ ~rep_isfile(rate, repFiles)
    /\ calls' = [calls EXCEPT !.enc = @ + 1]
    /\ \E n \in Inputs : /\ source.read => n = source.len
                         /\ source' = [read |-> TRUE, len |-> n]
    /\ \E exit \in ExitCodes :
         IF run_cmd(exit)
         THEN /\ Raise(exit, "CalledProcessError")
              /\ UNCHANGED <<stage, i, repFiles, reps>>
         ELSE /\ repFiles' = [repFiles EXCEPT ![rate] =
                                 [exists |-> TRUE, len |-> source'.len]]
              /\ reps' = reps \cup {rate}
              /\ hist' = [hist EXCEPT !.failed = @ \/ exit # 0]
              /\ IF last THEN pc' = "seg_prepare" /\ stage' = "segment" /\ i' = 1
                         ELSE i' = i + 1 /\ UNCHANGED <<pc, stage>>
    /\ UNCHANGED <<args, seg, tracks, scratch, dashOut, manifest, vmafJson,
                   cuts, yuv, deps, seg_info_all, info, window>>

\* segment_rep: the two directories are cleared and recreated (lines 73-80)
SegPrepare ==
    /\ pc = "seg_prepare"
    /\ tracks' = [tracks EXCEPT ![rate] = EmptyDir]
    /\ scratch' = scratch \cup {rate}
    /\ dashOut' = NoDashOut
    /\ pc' = "seg_dash"
    /\ UNCHANGED <<stage, args, source, i, seg, repFiles, manifest, vmafJson, cuts, yuv, deps,
                   reps, seg_info_all, info, window, calls, hist>>

\* segment_rep: MP4Box -dash in the scratch directory (lines 84-87)
SegDash ==
    /\ pc = "seg_dash"
    /\ calls' = [calls EXCEPT !.dash = @ + 1]
    /\ \E exit \in ExitCodes :
         IF run_cmd(exit)
         THEN /\ Raise(exit, "CalledProcessError")
              /\ UNCHANGED dashOut
         ELSE /\ dashOut' = [mpd |-> TRUE, init |-> TRUE,
                              chunks |-> Chunks(repFiles[rate].len)]
              /\ pc' = "seg_move"
              /\ hist' = [hist EXCEPT !.failed = @ \/ exit # 0]
    /\ UNCHANGED <<stage, args, source, i, seg, repFiles, tracks, scratch, manifest, vmafJson,
                   cuts, yuv, deps, reps, seg_info_all, info, window>>

\* rm(tmp) (line 94)
rm_tmp_skipped(dirs, r) == dirs
rm_tmp(dirs, r) == dirs \ {r}

\* the exit of mv "<tmp>"/*.m4s: the glob matches nothing without chunks
mv_exit(chunks) == IF chunks = <<>> THEN 1 ELSE 0

\* the loop over rates of run (lines 316-317) moves on, or run goes on to
\* build_common_manifest
NextRep ==
    IF last THEN pc' = "manifest" /\ stage' = "manifest" /\ i' = 1 /\ seg' = 0
            ELSE pc' = "seg_prepare" /\ i' = i + 1 /\ seg' = 0 /\ UNCHANGED stage

\* segment_rep: the outputs are moved, the scratch directory removed and the
\* chunks counted (lines 90-98)
SegMove ==
    /\ pc = "seg_move"
    /\ LET exit == mv_exit(dashOut.chunks)
           moved == [exists |-> TRUE, mpd |-> TRUE, frag |-> Fragment(rate, 1280, 720),
                     init |-> TRUE, chunks |-> dashOut.chunks]
       IN  IF run_cmd(exit)
           THEN /\ tracks' = [tracks EXCEPT ![rate] = moved]
                /\ Raise(exit, "CalledProcessError")
                /\ UNCHANGED <<scratch, seg_info_all, stage, i, seg>>
           ELSE /\ tracks' = [tracks EXCEPT ![rate] = moved]
                /\ scratch' = rm_tmp(scratch, rate)
                /\ seg_info_all' = [seg_info_all EXCEPT ![rate] =
                                       [present |-> TRUE, segs |-> <<>>]]
                /\ hist' = [hist EXCEPT !.failed = @ \/ exit # 0]
                /\ IF dashOut.chunks = <<>>
                   THEN NextRep
                   ELSE pc' = "seg_inspect" /\ seg' = 1 /\ UNCHANGED <<stage, i>>
    /\ dashOut' = NoDashOut
    /\ UNCHANGED <<args, source, repFiles, manifest, vmafJson, cuts, yuv, deps, reps, info,
                   window, calls>>

\* get_attr on the SegmentIndexBox line and earliest / timescale (lines 101-103);
\* the chunks start on whole seconds
start_time(sidx) == sidx.earliest_presentation_time \div sidx.timescale

\* the exit of MP4Box ... | grep "SegmentIndexBox" under sh: grep's
pipe_exit(tool, grep) == grep

\* segment_rep: MP4Box -diso of one chunk (lines 99-103)
SegInspect ==
    /\ pc = "seg_inspect"
    /\ calls' = [calls EXCEPT !.inspect = @ + 1]
    /\ \E tool \in ExitCodes, grep \in ExitCodes : LET exit == pipe_exit(tool, grep) IN
         IF run_cmd(exit)
         THEN /\ Raise(exit, "CalledProcessError")
              /\ UNCHANGED <<seg_info_all, stage, i, seg>>
         ELSE /\ seg_info_all' = [seg_info_all EXCEPT ![rate].segs =
                   Append(@, [start_time |-> start_time(tracks[rate].chunks[seg]),
                              scored |-> FALSE, vmaf |-> 0])]
              /\ hist' = [hist EXCEPT !.failed = @ \/ exit # 0]
              /\ IF seg < Len(tracks[rate].chunks)
                 THEN seg' = seg + 1 /\ UNCHANGED <<pc, stage, i>>
                 ELSE NextRep
    /\ UNCHANGED <<args, source, repFiles, tracks, scratch, dashOut, manifest, vmafJson, cuts,
                   yuv, deps, reps, info, window>>

\* build_common_manifest as run calls it (lines 320-323)
Manifest ==
    /\ pc = "manifest"
    /\ LET frags == [r \in Range(rates) |-> tracks[r].frag]
           res   == build_common_manifest(rates, frags)
           after == stripFragments(rates, frags, res.read)
       IN  /\ tracks' = [r \in PipeRates |->
                           IF r \in Range(rates) THEN [tracks[r] EXCEPT !.frag = after[r]]
                                                 ELSE tracks[r]]
           /\ IF res.err # ""
              THEN /\ Raise(0, res.err)
                   /\ UNCHANGED <<manifest, info, stage>>
              ELSE /\ manifest' = [exists |-> TRUE, children |-> res.base]
                   /\ info' = res.info
                   /\ hist' = [hist EXCEPT !.wroteManifest = TRUE]
                   /\ IF args.vmaf THEN pc' = "vmaf_enter" /\ stage' = "vmaf"
                                   ELSE pc' = "done" /\ UNCHANGED stage
    /\ UNCHANGED <<args, source, i, seg, repFiles, scratch, dashOut, vmafJson, cuts, yuv, deps,
                   reps, seg_info_all, window, calls>>

\* compute_vmaf's first lines on the deps directory as it is, d
entry(d) == compute_vmaf_entry(vmafJson.exists, d.bin, d.model)
biggest == max(Range(rates))

\* compute_vmaf returns at once (lines 242-243)
VmafSkip ==
    /\ pc = "vmaf_enter"
    /\ \E d \in DepStates : entry(d) = "return" /\ deps' = d
    /\ pc' = "done"
    /\ hist' = [hist EXCEPT !.skipped = TRUE]
    /\ UNCHANGED <<stage, args, source, i, seg, repFiles, tracks, scratch, dashOut, manifest,
                   vmafJson, cuts, yuv, reps, seg_info_all, info, window, calls>>

\* compute_vmaf finds no binary or no model (lines 246-254)
VmafMissing ==
    /\ pc = "vmaf_enter"
    /\ \E d \in DepStates : entry(d) \in {"raise_bin", "raise_model"} /\ deps' = d
    /\ Raise(0, "RuntimeError")
    /\ UNCHANGED <<stage, args, source, i, seg, repFiles, tracks, scratch, dashOut, manifest,
                   vmafJson, cuts, yuv, reps, seg_info_all, info, window, calls>>

\* the loop over rates of compute_vmaf reaches its next rate (line 262)
\* or its end
NextScored ==
    IF last THEN pc' = "vmaf_write" /\ i' = 1 /\ seg' = 0
            ELSE pc' = "vmaf_rate" /\ i' = i + 1 /\ seg' = 0

\* convert_to_yuv of the reference (lines 256-260, 165-171)
VmafRef ==
    /\ pc = "vmaf_enter"
    /\ \E d \in DepStates : entry(d) = "go" /\ deps' = d
    /\ calls' = [calls EXCEPT !.conv = @ + 1]
    /\ \E exit \in ExitCodes :
         IF run_cmd(exit)
         THEN /\ Raise(exit, "CalledProcessError")
              /\ yuv' = [yuv EXCEPT !.exists = TRUE]
              /\ UNCHANGED i
         ELSE /\ yuv' = [exists |-> TRUE, files |-> yuv.files \cup {biggest}]
              /\ pc' = "vmaf_rate" /\ i' = 1
              /\ hist' = [hist EXCEPT !.failed = @ \/ exit # 0]
    /\ UNCHANGED <<stage, args, source, seg, repFiles, tracks, scratch, dashOut, manifest,
                   vmafJson, cuts, reps, seg_info_all, info, window>>

\* after line 263: segments = max(seg_info[rate].keys()) and the first segment
EnterSegments ==
    IF seg_info_all[rate].segs = <<>>
    THEN Raise(0, "ValueError") /\ UNCHANGED seg
    ELSE pc' = "vmaf_cut1" /\ seg' = 1 /\ UNCHANGED hist

\* cur_yuv = ref_yuv for the reference itself (line 263)
VmafReuseRef ==
    /\ pc = "vmaf_rate" /\ rate = biggest
    /\ EnterSegments
    /\ UNCHANGED <<stage, args, source, i, repFiles, tracks, scratch, dashOut, manifest,
                   vmafJson, cuts, yuv, deps, reps, seg_info_all, info, window, calls>>

\* convert_to_yuv of another representation (line 263)
VmafConvert ==
    /\ pc = "vmaf_rate" /\ rate # biggest
    /\ calls' = [calls EXCEPT !.conv = @ + 1]
    /\ \E exit \in ExitCodes :
         IF run_cmd(exit)
         THEN /\ Raise(exit, "CalledProcessError")
              /\ UNCHANGED <<yuv, seg>>
         ELSE /\ yuv' = [yuv EXCEPT !.files = @ \cup {rate}]
              /\ IF seg_info_all[rate].segs = <<>>
                 THEN Raise(exit, "ValueError") /\ UNCHANGED seg
                 ELSE /\ pc' = "vmaf_cut1" /\ seg' = 1
                      /\ hist' = [hist EXCEPT !.failed = @ \/ exit # 0]
    /\ UNCHANGED <<stage, args, source, i, repFiles, tracks, scratch, dashOut, manifest,
                   vmafJson, cuts, deps, reps, seg_info_all, info, window>>

\* the window of one segment and the cut of cur_yuv (lines 267-277)
VmafCut1 ==
    /\ pc = "vmaf_cut1"
    /\ LET w == cut_window(seg_info_all[rate].segs, seg)
       IN  IF w.err # ""
           THEN /\ Raise(0, w.err)
                /\ UNCHANGED <<window, calls, cuts>>
           ELSE /\ window' = [rate |-> rate, seg |-> seg, ss |-> w.ss, t |-> w.t]
                /\ calls' = [calls EXCEPT !.cut = @ + 1]
                /\ \E exit \in ExitCodes :
                     IF run_cmd(exit)
                     THEN Raise(exit, "CalledProcessError") /\ UNCHANGED cuts
                     ELSE /\ cuts' = cuts \cup {"cut1.yuv"}
                          /\ pc' = "vmaf_cut2"
                          /\ hist' = [hist EXCEPT !.failed = @ \/ exit # 0]
    /\ UNCHANGED <<stage, args, source, i, seg, repFiles, tracks, scratch, dashOut, manifest,
                   vmafJson, yuv, deps, reps, seg_info_all, info>>

\* the cut of ref_yuv (lines 278-281)
VmafCut2 ==
    /\ pc = "vmaf_cut2"
    /\ calls' = [calls EXCEPT !.cut = @ + 1]
    /\ \E exit \in ExitCodes :
         IF run_cmd(exit)
         THEN Raise(exit, "CalledProcessError") /\ UNCHANGED cuts
         ELSE /\ cuts' = cuts \cup {"cut2.yuv"}
              /\ pc' = "vmaf_tool"
              /\ hist' = [hist EXCEPT !.failed = @ \/ exit # 0]
    /\ UNCHANGED <<stage, args, source, i, seg, repFiles, tracks, scratch, dashOut, manifest,
                   vmafJson, yuv, deps, reps, seg_info_all, info, window>>

\* vmafossexec, the report parsed and scored, the scratch files removed
\* (lines 284-292)
VmafScore ==
    /\ pc = "vmaf_tool"
    /\ calls' = [calls EXCEPT !.vmaf = @ + 1]
    /\ \E exit \in ExitCodes :
         IF run_cmd(exit)
         THEN /\ Raise(exit, "CalledProcessError")
              /\ UNCHANGED <<cuts, seg_info_all, i, seg>>
         ELSE \E v \in PipeReports :
                LET res == extract_vmaf_score(v)
                IN  IF res.kind # "value"
                    THEN /\ Raise(exit, res.kind)
                         /\ cuts' = cuts \cup {"vmaf_out.json"}
                         /\ UNCHANGED <<seg_info_all, i, seg>>
                    ELSE /\ seg_info_all' = [seg_info_all EXCEPT ![rate].segs[seg] =
                                set_vmaf(@, res.val)]
                         /\ cuts' = {}
                         /\ hist' = [hist EXCEPT !.failed = @ \/ exit # 0]
                         /\ IF seg < Len(seg_info_all[rate].segs)
                            THEN pc' = "vmaf_cut1" /\ seg' = seg + 1 /\ UNCHANGED i
                            ELSE NextScored
    /\ UNCHANGED <<stage, args, source, repFiles, tracks, scratch, dashOut, manifest,
                   vmafJson, yuv, deps, reps, info, window>>

\* the raw buffers removed and vmaf.json written (lines 294-296)
VmafWrite ==
    /\ pc = "vmaf_write"
    /\ yuv' = NoYuv
    /\ vmafJson' = [exists |-> TRUE, doc |-> seg_info_all]
    /\ hist' = [hist EXCEPT !.wroteJson = TRUE]
    /\ pc' = "done"
    /\ UNCHANGED <<stage, args, source, i, seg, repFiles, tracks, scratch, dashOut, manifest,
                   cuts, deps, reps, seg_info_all, info, window, calls>>

PipeNext ==
    \/ StartRun
    \/ TranscodeSkip \/ TranscodeEncode
    \/ SegPrepare \/ SegDash \/ SegMove \/ SegInspect
    \/ Manifest
    \/ VmafSkip \/ VmafMissing \/ VmafRef \/ VmafReuseRef \/ VmafConvert
    \/ VmafCut1 \/ VmafCut2 \/ VmafScore \/ VmafWrite

Next == PipeNext /\ UNCHANGED <<extVars, manVars>>

Spec == Init /\ [][Next]_vars

(***************************************************************************)
(* extract_vmaf_score on its own: one report, one call.                    *)
(***************************************************************************)
ExtInit == PipeInit /\ deps = NoDeps /\ ManIdle /\ ext_v \in Reports /\ ext_r = Pending

Extract ==
    /\ ext_r = Pending
    /\ ext_r' = extract_vmaf_score(ext_v)
    /\ UNCHANGED <<ext_v, pipeVars, manVars>>

ExtractSpec == ExtInit /\ [][Extract]_vars

(***************************************************************************)
(* build_common_manifest on its own: a list of distinct bitrates in any    *)
(* order, one fragment per bitrate, one call.                              *)
(***************************************************************************)
Shapes == {"360p", "720p", "norep"}
FragmentOf(r, shape) ==
    CASE shape = "360p" -> Fragment(r, 640, 360)
      [] shape = "720p" -> Fragment(r, 1280, 720)
      [] OTHER          -> FragmentNoRep

ManInit ==
    /\ PipeInit /\ deps = NoDeps /\ ExtIdle
    /\ m_rates \in DistinctSeqs(RateUniverse(MaxRates), MaxRates)
    /\ \E sh \in [Range(m_rates) -> Shapes] :
         m_frags = [r \in Range(m_rates) |-> FragmentOf(r, sh[r])]
    /\ m_out = PendingOut

Build ==
    /\ m_out = PendingOut
    /\ m_out' = build_common_manifest(m_rates, m_frags)
    /\ m_frags' = stripFragments(m_rates, m_frags, m_out'.read)
    /\ UNCHANGED <<m_rates, pipeVars, extVars>>

ManifestSpec == ManInit /\ [][Build]_vars

(***************************************************************************)
(* What the claims speak of, stated without the functions they are about.  *)
(***************************************************************************)
\* the value under the keys of path, None when a step is no object or
\* lacks the key
RECURSIVE At(_, _)
At(v, path) ==
    IF path = <<>> THEN v
    ELSE IF isdict(v) /\ Has(v, Head(path)) THEN At(Get(v, Head(path)), Tail(path))
    ELSE None

\* every (key, value) entry of v in depth-first order: an object's entries
\* in insertion order, each followed by the entries below it; a list's
\* elements in order
RECURSIVE Entries(_), EntriesOf(_, _)
EntriesOf(x, j) ==
    IF j > Len(x.items) THEN <<>>
    ELSE IF isdict(x)
         THEN <<x.items[j]>> \o Entries(x.items[j].v) \o EntriesOf(x, j + 1)
         ELSE Entries(x.items[j]) \o EntriesOf(x, j + 1)
Entries(x) == IF isdict(x) \/ islist(x) THEN EntriesOf(x, 1) ELSE <<>>

IsScoreEntry(e) == lower(e.k) \in {"vmaf_score", "vmaf"} /\ isnum(e.v)
\* the first numeric value in depth-first order under a score key
FirstScore(v) ==
    LET es   == Entries(v)
        hits == { j \in 1..Len(es) : IsScoreEntry(es[j]) }
    IN  IF hits = {} THEN None
        ELSE es[CHOOSE j \in hits : \A k \in hits : j <= k].v

\* the first present of mean, harmonic_mean, min, max under pooled_metrics.vmaf
PooledStat(v) ==
    LET stat(k) == At(v, <<"pooled_metrics", "vmaf", k>>)
    IN  IF stat("mean") # None THEN stat("mean")
        ELSE IF stat("harmonic_mean") # None THEN stat("harmonic_mean")
        ELSE IF stat("min") # None THEN stat("min")
        ELSE stat("max")

\* the score the precedence of the four strategies picks, None when no
\* strategy yields one
Precedence(v) ==
    IF isnum(At(v, <<"aggregate", "VMAF_score">>)) THEN At(v, <<"aggregate", "VMAF_score">>)
    ELSE IF isnum(At(v, <<"aggregate", "VMAF">>)) THEN At(v, <<"aggregate", "VMAF">>)
    ELSE IF isnum(PooledStat(v)) THEN PooledStat(v)
    ELSE IF isnum(At(v, <<"metrics", "vmaf", "mean">>)) THEN At(v, <<"metrics", "vmaf", "mean">>)
    ELSE FirstScore(v)

C5_DescriptiveError ==
    (ext_r # Pending /\ Precedence(ext_v) = None) =>
        /\ ext_r.kind = "KeyError"
        /\ IF isdict(ext_v) THEN ext_r.keys = Keys(ext_v) ELSE ext_r.type = ext_v.t

\* the Representation nodes of a manifest, in document order
RepNodes(children) == SelectSeq(children, LAMBDA n : n.tag = "Representation")
\* the number video<k> given to the representation of rate r
IdOf(out, r) ==
    LET nodes == RepNodes(out.base)
    IN  nodes[CHOOSE j \in 1..Len(nodes) : nodes[j].src = r].id[2]
\* the 0-based position of r when rs is sorted ascending
AscendingPosition(rs, r) == Cardinality({ x \in Range(rs) : x < r })
Reorderings(s) == { q \in DistinctSeqs(Range(s), Len(s)) : Len(q) = Len(s) }

\* C2: every bitrate gets the identifier video<k>, k its 0-based position in
\* the ascending sort; the identifiers are a bijection onto 0..n-1 and every
\* permutation of the list gets the same ones.
C2_RankIdentifiers ==
    m_out.err = "" =>
        LET nodes == RepNodes(m_out.base)
            n     == Len(m_rates)
        IN  /\ \A r \in Range(m_rates) :
                 \E j \in 1..Len(nodes) :
                    /\ nodes[j].src = r
                    /\ nodes[j].id = <<"video", AscendingPosition(m_rates, r)>>
            /\ { IdOf(m_out, r) : r \in Range(m_rates) } = 0..(n - 1)
            /\ \A r1, r2 \in Range(m_rates) : IdOf(m_out, r1) = IdOf(m_out, r2) => r1 = r2
            /\ \A q \in Reorderings(m_rates) :
                 LET o == build_common_manifest(q, m_frags)
                 IN  o.err = "" /\ \A r \in Range(m_rates) : IdOf(o, r) = IdOf(m_out, r)

\* C2 witness: three bitrates given in no sorted order were merged
C2_Witness ==
    /\ m_out.err = "" /\ Len(m_rates) = 3
    /\ m_rates[1] > m_rates[2] /\ m_rates[2] < m_rates[3]

\* C3: the merged manifest holds exactly one Representation per bitrate and
\* they stand in ascending rank order: video0, video1, ..., video(n-1).
C3_RankOrder ==
    m_out.err = "" =>
        LET nodes == RepNodes(m_out.base)
        IN  /\ Len(nodes) = Len(m_rates)
            /\ \A r \in Range(m_rates) :
                 Cardinality({ j \in 1..Len(nodes) : nodes[j].src = r }) = 1
            /\ \A j \in 1..Len(nodes) : nodes[j].id = <<"video", j - 1>>

(***************************************************************************)
(* The claims about the pipeline.                                          *)
(***************************************************************************)
\* the scratch artifacts of the working directory
NoScratch == scratch = {} /\ cuts = {} /\ ~yuv.exists
\* the start of chunk n of the representation r, from the chunk on disk
StartOf(r, n) == start_time(tracks[r].chunks[n])
\* vmaf.json holds start time and score of every segment of every requested
\* bitrate
JsonComplete ==
    /\ vmafJson.exists
    /\ \A r \in Range(rates) :
         /\ vmafJson.doc[r].present
         /\ Len(vmafJson.doc[r].segs) = Len(tracks[r].chunks)
         /\ \A n \in 1..Len(tracks[r].chunks) :
              /\ vmafJson.doc[r].segs[n].start_time = StartOf(r, n)
              /\ vmafJson.doc[r].segs[n].scored

C6_AbortOnFailure ==
    /\ [](hist.failed =>
            /\ pc = "aborted"
            /\ ~hist.wroteJson
            /\ stage \in {"transcode", "segment"} => ~hist.wroteManifest)
    /\ [][hist.failed => pc' = "transcode" /\ calls' = NoCalls /\ ~hist'.failed]_vars

\* C6 witness: the segmenter failed on the second representation
C6_Witness ==
    /\ hist.failed /\ pc = "aborted" /\ stage = "segment" /\ calls.dash = 2
    /\ ~hist.wroteManifest

\* C7: with vmaf.json in place compute_vmaf does nothing: whatever the state
\* of the binary and the model file, the run ends normally with every file,
\* the segment info and the count of invocations as they were.
C7_SkipIsNoOp ==
    [][(pc = "vmaf_enter" /\ vmafJson.exists) =>
          /\ pc' = "done" /\ hist'.error = ""
          /\ UNCHANGED <<repFiles, tracks, scratch, manifest, vmafJson, cuts, yuv,
                         seg_info_all, info, calls>>]_vars

\* C7 witness: compute_vmaf returned at once although the binary was missing
C7_Witness ==
    /\ pc = "done" /\ hist.skipped /\ ~deps.bin /\ vmafJson.exists
    /\ \A r \in Range(rates) : \A n \in DOMAIN seg_info_all[r].segs :
          ~seg_info_all[r].segs[n].scored

\* C8 as stated: after any run with scoring enabled that completes normally,
\* vmaf.json holds start time and score of every segment of every requested
\* bitrate.
C8_CompleteAfterAnyRun == (pc = "done" /\ args.vmaf) => JsonComplete

\* C8 amended: that holds after a run with scoring enabled that found no
\* vmaf.json when it started; and a run writes vmaf.json once, complete, as
\* its last step: until then the file it did not find does not exist.
C8_CompleteWhenWritten ==
    /\ (pc = "done" /\ args.vmaf /\ ~hist.jsonAtStart) => JsonComplete /\ hist.wroteJson
    /\ hist.wroteJson => pc = "done" /\ JsonComplete
    /\ (~hist.jsonAtStart /\ ~hist.wroteJson) => ~vmafJson.exists

\* C8 witness: a run scored two representations and wrote vmaf.json
C8_Witness ==
    /\ pc = "done" /\ hist.wroteJson /\ Len(rates) = 2
    /\ \A r \in Range(rates) : Len(vmafJson.doc[r].segs) = MaxSeg

\* C9: for every representation of N >= 1 segments and every segment n the
\* cut starts at start(n) and lasts start(n+1) - start(n), or
\* start(N) - start(N-1) for the last one, and no segment goes without its
\* cut: compute_vmaf never stops on the window of a segment.
C9_EverySegmentCut ==
    /\ pc \in {"vmaf_cut2", "vmaf_tool"} =>
         LET N == Len(tracks[rate].chunks)
         IN  /\ window.rate = rate /\ window.seg = seg
             /\ window.ss = StartOf(rate, seg)
             /\ seg < N => window.t = StartOf(rate, seg + 1) - StartOf(rate, seg)
             /\ (seg = N /\ N > 1) => window.t = StartOf(rate, N) - StartOf(rate, N - 1)
    /\ (pc = "aborted" /\ stage = "vmaf") => hist.error # "KeyError: 0"

\* C10 as stated: at the normal exit of a run, whatever earlier runs left, no
\* scratch artifact remains.
C10_NoScratchAtExit == pc = "done" => NoScratch

\* C10 amended: at the normal exit of a run nothing remains of the scratch
\* the run itself made: no tmp/mp4box_<rate> of a requested rate and, when
\* the run scored, no cut file, no report file and no yuv/; a run that found
\* no scratch artifact leaves none.  What an earlier aborted run left and
\* this run did not use stays.
C10_OwnScratchRemoved ==
    pc = "done" =>
        /\ scratch \cap Range(rates) = {}
        /\ hist.wroteJson => cuts = {} /\ ~yuv.exists
        /\ hist.clean => NoScratch

\* C10 witness: a run on a directory without scratch scored and is done
C10_Witness ==
    /\ pc = "done" /\ hist.clean /\ hist.wroteJson /\ Len(rates) = 2 /\ NoScratch

====
